---- MODULE Spec2Model ----
(***************************************************************************)
(* A model of specfile's comment-preserving tag editor (specfile/tags.py,  *)
(* specfile/sourcelist.py) and of the forced-parse pipeline of             *)
(* SpecParser (specfile/spec_parser.py).                                   *)
(*                                                                         *)
(* Lines, names and values are TLA+ strings; the regular expressions of    *)
(* the source are computed character by character.  Python objects are     *)
(* records; an optional value is a record whose field some tells         *)
(* whether it is present.                                                  *)
(***************************************************************************)
EXTENDS Integers, Sequences, FiniteSets, TLC

(***************************************************************************)
(* Strings                                                                 *)
(***************************************************************************)

\* the character at position i of s (1-based), "" past the end
Ch(s, i) == IF i >= 1 /\ i <= Len(s) THEN SubSeq(s, i, i) ELSE ""

\* the characters of s from position i on
From(s, i) == IF i <= Len(s) THEN SubSeq(s, i, Len(s)) ELSE ""

\* regex class \s (the whitespace that can stand inside one line)
IsSpace(c) == c \in {" ", "\t"}

\* regex class \d
IsDigit(c) == c \in {"0", "1", "2", "3", "4", "5", "6", "7", "8", "9"}

UpperLetters ==
    <<"A", "B", "C", "D", "E", "F", "G", "H", "I", "J", "K", "L", "M",
      "N", "O", "P", "Q", "R", "S", "T", "U", "V", "W", "X", "Y", "Z">>

LowerLetters ==
    <<"a", "b", "c", "d", "e", "f", "g", "h", "i", "j", "k", "l", "m",
      "n", "o", "p", "q", "r", "s", "t", "u", "v", "w", "x", "y", "z">>

ToLower ==
    [c \in {UpperLetters[k] : k \in 1..26} |->
        LowerLetters[CHOOSE k \in 1..26 : UpperLetters[k] = c]]

ToUpper ==
    [c \in {LowerLetters[k] : k \in 1..26} |->
        UpperLetters[CHOOSE k \in 1..26 : LowerLetters[k] = c]]

LowerCh(c) == IF c \in DOMAIN ToLower THEN ToLower[c] ELSE c

UpperCh(c) == IF c \in DOMAIN ToUpper THEN ToUpper[c] ELSE c

RECURSIVE LowerFrom(_, _)
LowerFrom(s, i) ==
    IF i > Len(s) THEN "" ELSE LowerCh(Ch(s, i)) \o LowerFrom(s, i + 1)

\* str.lower()
Lower(s) == LowerFrom(s, 1)

\* str.capitalize(): first character upper case, the rest lower case
Capitalize(s) == IF s = "" THEN "" ELSE UpperCh(Ch(s, 1)) \o LowerFrom(s, 2)

\* str.startswith()
StartsWith(s, p) == Len(s) >= Len(p) /\ SubSeq(s, 1, Len(p)) = p

\* str.endswith()
EndsWith(s, p) ==
    Len(s) >= Len(p) /\ SubSeq(s, Len(s) - Len(p) + 1, Len(s)) = p

\* the first position >= i of s that holds no whitespace (regex \s*)
RECURSIVE SkipSpace(_, _)
SkipSpace(s, i) ==
    IF i <= Len(s) /\ IsSpace(Ch(s, i)) THEN SkipSpace(s, i + 1) ELSE i

\* the first position >= i of s that holds no digit (regex \d*)
RECURSIVE SkipDigits(_, _)
SkipDigits(s, i) ==
    IF i <= Len(s) /\ IsDigit(Ch(s, i)) THEN SkipDigits(s, i + 1) ELSE i

\* the first position >= i of s that holds whitespace or ")" (regex [^\s)]*)
RECURSIVE SkipArg(_, _)
SkipArg(s, i) ==
    IF i <= Len(s) /\ ~IsSpace(Ch(s, i)) /\ Ch(s, i) # ")"
    THEN SkipArg(s, i + 1)
    ELSE i

\* str.lstrip()
LStrip(s) == From(s, SkipSpace(s, 1))

\* Python's None, and a value that is not None
None == [some |-> FALSE, v |-> ""]

Some(x) == [some |-> TRUE, v |-> x]

(***************************************************************************)
(* specfile/tags.py: tag names                                             *)
(***************************************************************************)

TAG_NAMES ==
    {"name", "version", "release", "epoch", "summary", "license",
     "distribution", "disturl", "vendor", "group", "packager", "url", "vcs",
     "source", "patch", "nosource", "nopatch", "excludearch",
     "exclusivearch", "excludeos", "exclusiveos", "icon", "provides",
     "requires", "recommends", "suggests", "supplements", "enhances",
     "prereq", "conflicts", "obsoletes", "prefixes", "prefix", "buildroot",
     "buildarchitectures", "buildarch", "buildconflicts", "buildprereq",
     "buildrequires", "autoreqprov", "autoreq", "autoprov", "docdir",
     "disttag", "bugurl", "translationurl", "upstreamreleases",
     "orderwithrequires", "removepathpostfixes", "modularitylabel"}

TAGS_WITH_ARG == {"summary", "group", "requires", "prereq", "orderwithrequires"}

\* the end of the optional group (?:\s*\(\s*[^\s)]*\s*\))? tried at position
\* i of s: the position after ")" when the group matches, i when it does not
ArgEnd(s, i) ==
    LET a == SkipSpace(s, i)
        b == SkipSpace(s, a + 1)
        c == SkipArg(s, b)
        d == SkipSpace(s, c)
    IN  IF Ch(s, a) = "(" /\ Ch(s, d) = ")" THEN d + 1 ELSE i

\* get_tag_name_regex(name) matched at the start of s, ignoring case or
\* not: the position after the match, 0 when the regex does not match
NameRegexEnd(name, s, ignorecase) ==
    LET n == Len(name)
        head == IF Len(s) >= n THEN SubSeq(s, 1, n) ELSE ""
        lit == /\ Len(s) >= n
               /\ IF ignorecase
                  THEN /\ LowerCh(Ch(s, 1)) = LowerCh(Ch(name, 1))
                       /\ Lower(head) = Lower(name)
                  ELSE head = name
    IN  IF ~lit THEN 0
        ELSE IF name \in TAGS_WITH_ARG THEN ArgEnd(s, n + 1)
        ELSE IF name \in {"source", "patch"} THEN SkipDigits(s, n + 1)
        ELSE n + 1

(***************************************************************************)
(* specfile/tags.py: Comment, Comments                                     *)
(***************************************************************************)

\* Comment(text, prefix)
Comment(text, prefix) == [text |-> text, prefix |-> prefix]

CommentStrWithSpace(c) == c.prefix \o " " \o c.text

\* Comment.__str__
CommentStr(c) == c.prefix \o c.text

\* Comments(data, preceding_lines)
Comments(data, preceding_lines) ==
    [data |-> data, preceding_lines |-> preceding_lines]

\* comment_regex ^(\s*#\s*)(.*)$ matched on a line: groups 1 and 2
CommentRegexMatch(line) ==
    LET h == SkipSpace(line, 1)
        t == SkipSpace(line, h + 1)
    IN  IF Ch(line, h) = "#"
        THEN [ok |-> TRUE, g1 |-> SubSeq(line, 1, t - 1), g2 |-> From(line, t)]
        ELSE [ok |-> FALSE, g1 |-> "", g2 |-> ""]

GoesToPrecedingLinesUnmatched(m, preceding_lines) == ~m.ok

\* the test of Comments.parse that sends a line to the preceding lines
GoesToPrecedingLines(m, preceding_lines) == ~m.ok \/ preceding_lines # <<>>

\* the loop of Comments.parse over reversed(lines), at line i
RECURSIVE CommentsParseLoop(_, _, _, _)
CommentsParseLoop(lines, i, comments, preceding_lines) ==
    IF i = 0 THEN Comments(comments, preceding_lines)
    ELSE LET m == CommentRegexMatch(lines[i])
         IN  IF GoesToPrecedingLines(m, preceding_lines)
             THEN CommentsParseLoop(lines, i - 1, comments,
                                    <<lines[i]>> \o preceding_lines)
             ELSE CommentsParseLoop(lines, i - 1,
                                    <<Comment(m.g2, m.g1)>> \o comments,
                                    preceding_lines)

\* Comments.parse(lines)
CommentsParse(lines) == CommentsParseLoop(lines, Len(lines), <<>>, <<>>)

\* Comments.get_raw_data()
CommentsGetRawData(c) ==
    c.preceding_lines \o [k \in 1..Len(c.data) |-> CommentStr(c.data[k])]

\* Comments.copy()
CommentsCopy(c) == Comments(c.data, c.preceding_lines)

(***************************************************************************)
(* specfile/tags.py: Tag                                                   *)
(***************************************************************************)

\* the test of Tag.__init__ on the name: some name regex matches at the
\* start of the name (re.match), ignoring case
TagNameAccepted(name) ==
    name # "" /\ \E t \in TAG_NAMES : NameRegexEnd(t, name, TRUE) # 0

\* Tag(name, value, expanded_value, separator, comments), the name accepted
Tag(name, value, expanded_value, separator, comments) ==
    [name |-> name, value |-> value, expanded_value |-> expanded_value,
     separator |-> separator, comments |-> CommentsCopy(comments)]

\* Tag.valid
TagValid(tag) == tag.expanded_value # None

\* the line of a tag in Tags.get_raw_section_data
TagLine(tag) == tag.name \o tag.separator \o tag.value

(***************************************************************************)
(* specfile/tags.py: Tags                                                  *)
(***************************************************************************)

\* Tags(data, remainder)
Tags(data, remainder) == [data |-> data, remainder |-> remainder]

\* flattening of a sequence of sequences of lines
RECURSIVE Flatten(_)
Flatten(ss) == IF ss = <<>> THEN <<>> ELSE Head(ss) \o Flatten(Tail(ss))

\* Tags.get_raw_section_data()
TagsGetRawSectionData(t) ==
    Flatten([k \in 1..Len(t.data) |->
                CommentsGetRawData(t.data[k].comments)
                    \o <<TagLine(t.data[k])>>])
        \o t.remainder

\* regex_pattern(tag), ^(?P<n>name regex)(?P<s>\s*:\s*)(?P<v>.+), matched
\* on a line.  After the colon \s* is greedy and .+ needs one character:
\* when only whitespace follows the colon, \s* gives its last character back.
RegexPatternMatch(tag, line, ignorecase) ==
    LET p == NameRegexEnd(tag, line, ignorecase)
        q == SkipSpace(line, p)
        r == SkipSpace(line, q + 1)
        e == IF r <= Len(line) THEN r ELSE IF r - 1 > q THEN r - 1 ELSE 0
    IN  IF p # 0 /\ Ch(line, q) = ":" /\ e # 0
        THEN [ok |-> TRUE, n |-> SubSeq(line, 1, p - 1),
              s |-> SubSeq(line, p, e - 1), v |-> From(line, e)]
        ELSE [ok |-> FALSE, n |-> "", s |-> "", v |-> ""]

NoMatch == [ok |-> FALSE, n |-> "", s |-> "", v |-> ""]

\* the match of the first of tag_regexes that matches the line
TagRegexesMatch(line) ==
    IF \E t \in TAG_NAMES : RegexPatternMatch(t, line, TRUE).ok
    THEN RegexPatternMatch(
             CHOOSE t \in TAG_NAMES : RegexPatternMatch(t, line, TRUE).ok,
             line, TRUE)
    ELSE NoMatch

\* the lines of the parsed section the search for an expanded value runs
\* over: parsed_section or []
ParsedLines(parsed_section) ==
    IF parsed_section = None THEN <<>> ELSE parsed_section.v

\* the expanded value Tags.parse gives the tag matched as name n: the value
\* of the first line of the parsed section that regex_pattern(n) matches
\* (compiled without IGNORECASE), None when there is none
ExpandedValue(n, parsed_section) ==
    LET pl == ParsedLines(parsed_section)
        hits == {k \in 1..Len(pl) : RegexPatternMatch(n, pl[k], FALSE).ok}
    IN  IF hits = {} THEN None
        ELSE Some(RegexPatternMatch(
                      n, pl[CHOOSE k \in hits : \A j \in hits : k <= j],
                      FALSE).v)

\* the loop of Tags.parse at line i, with the tags and the buffer so far
RECURSIVE TagsParseLoop(_, _, _, _, _)
TagsParseLoop(raw_section, parsed_section, i, data, buffer) ==
    IF i > Len(raw_section) THEN Tags(data, buffer)
    ELSE LET line == raw_section[i]
             m == TagRegexesMatch(line)
         IN  IF m.ok
             THEN TagsParseLoop(
                      raw_section, parsed_section, i + 1,
                      Append(data,
                             Tag(m.n, m.v, ExpandedValue(m.n, parsed_section),
                                 m.s, CommentsParse(buffer))),
                      <<>>)
             ELSE TagsParseLoop(raw_section, parsed_section, i + 1, data,
                                Append(buffer, line))

\* Tags.parse(raw_section, parsed_section)
TagsParse(raw_section, parsed_section) ==
    TagsParseLoop(raw_section, parsed_section, 1, <<>>, <<>>)

\* the position (1-based) of Python index i in a list of n elements, 0 when
\* the index is out of range (IndexError)
PyIndex(n, i) ==
    IF i >= 0 /\ i < n THEN i + 1
    ELSE IF i < 0 /\ i >= -n THEN i + n + 1
    ELSE 0

\* del list[pos], pos 1-based
RemoveAt(s, pos) == SubSeq(s, 1, pos - 1) \o SubSeq(s, pos + 1, Len(s))

\* list.insert(i, x): a negative i counts from the end, and i is clamped
ListInsert(s, i, x) ==
    LET n == Len(s)
        k == IF i < 0 THEN (IF i + n < 0 THEN 0 ELSE i + n)
             ELSE (IF i > n THEN n ELSE i)
    IN  SubSeq(s, 1, k) \o <<x>> \o SubSeq(s, k + 1, n)

\* reversed(lines)
Reversed(s) == [k \in 1..Len(s) |-> s[Len(s) + 1 - k]]

\* itertools.dropwhile(lambda l: not l, lines)
RECURSIVE DropWhileEmpty(_)
DropWhileEmpty(lines) ==
    IF lines # <<>> /\ Head(lines) = ""
    THEN DropWhileEmpty(Tail(lines))
    ELSE lines

\* the delimiter of delete(): one empty line when the preceding lines end
\* with an empty line or the receiving lines start with one
Delimiter(preceding_lines, lines) ==
    IF \/ (preceding_lines # <<>>
            /\ preceding_lines[Len(preceding_lines)] = "")
       \/ (lines # <<>> /\ lines[1] = "")
    THEN <<"">>
    ELSE <<>>

\* the value delete() assigns to lines[:]
MergedLines(preceding_lines, lines) ==
    Reversed(DropWhileEmpty(Reversed(preceding_lines)))
        \o Delimiter(preceding_lines, lines)
        \o DropWhileEmpty(lines)

\* the lines that receive the preceding lines of the tag deleted at index:
\* the test index < len(self.data) of delete(), made after the deletion
ReceiverIsTag(index, n) == index < n

KeptLinesWithComments(tag) == CommentsGetRawData(tag.comments)

\* the lines delete() keeps of the tag it deletes: its preceding lines (its
\* comments go with it)
KeptLines(tag) == tag.comments.preceding_lines

\* delete(index) of Tags.__delitem__: the collection after it and the
\* exception it ends with.  self.data[index] is evaluated twice, before and
\* after the deletion, each time as Python indexes a list.
TagsDelete(t, index) ==
    LET pos == PyIndex(Len(t.data), index)
    IN  IF pos = 0 THEN [t |-> t, err |-> "IndexError"]
        ELSE LET preceding_lines == KeptLines(t.data[pos])
                 data == RemoveAt(t.data, pos)
                 tgt == PyIndex(Len(data), index)
             IN  IF ReceiverIsTag(index, Len(data))
                 THEN IF tgt = 0
                      THEN [t |-> Tags(data, t.remainder),
                            err |-> "IndexError"]
                      ELSE [t |-> Tags(
                                [data EXCEPT
                                   ![tgt].comments.preceding_lines =
                                       MergedLines(preceding_lines, @)],
                                t.remainder),
                            err |-> "none"]
                 ELSE [t |-> Tags(data,
                                  MergedLines(preceding_lines, t.remainder)),
                       err |-> "none"]

\* range(len(self.data))[a:b] for 0 <= a, 0 <= b, as the indexes it holds
SliceIndexes(n, a, b) == {k \in 0..(n - 1) : a <= k /\ k < b}

\* the loop of Tags.__delitem__ over reversed(range(len(self.data))[i]),
\* from index k down
RECURSIVE TagsDeleteSlice(_, _, _)
TagsDeleteSlice(t, idx, k) ==
    IF k < 0 THEN [t |-> t, err |-> "none"]
    ELSE IF k \in idx
         THEN LET r == TagsDelete(t, k)
              IN  IF r.err # "none" THEN r
                  ELSE TagsDeleteSlice(r.t, idx, k - 1)
         ELSE TagsDeleteSlice(t, idx, k - 1)

\* Tags.__delitem__(i), i an index or the slice a:b
TagsDelItem(t, i) ==
    IF i.slice
    THEN TagsDeleteSlice(t, SliceIndexes(Len(t.data), i.a, i.b),
                         Len(t.data) - 1)
    ELSE TagsDelete(t, i.a)

\* Tags.__contains__(name)
TagsContains(t, name) ==
    \E k \in 1..Len(t.data) : Lower(t.data[k].name) = Lower(name)

\* Tags.find(name): the index (0-based) of the first tag of that name,
\* -1 for ValueError
TagsFind(t, name) ==
    LET hits == {k \in 1..Len(t.data) :
                    Capitalize(t.data[k].name) = Capitalize(name)}
    IN  IF hits = {} THEN -1
        ELSE (CHOOSE k \in hits : \A j \in hits : k <= j) - 1

FirstEndifNever(lines) == -1

\* the index (0-based) of the first line that starts with %endif, -1 if none
FirstEndif(lines) ==
    LET hits == {k \in 1..Len(lines) : StartsWith(lines[k], "%endif")}
    IN  IF hits = {} THEN -1
        ELSE (CHOOSE k \in hits : \A j \in hits : k <= j) - 1

\* Tags.insert(i, item): the collection after it and the exception it ends
\* with
TagsInsert(t, i, item) ==
    LET n == Len(t.data)
        i1 == IF i > n THEN n ELSE i
        tgt == PyIndex(n, i1)
        lines == IF i1 < n THEN t.data[tgt].comments.preceding_lines
                 ELSE t.remainder
        index == FirstEndif(lines)
        item1 == IF index >= 0
                 THEN [item EXCEPT !.comments.preceding_lines =
                                       SubSeq(lines, 1, index + 1) \o @]
                 ELSE item
        lines1 == IF index >= 0
                  THEN SubSeq(lines, index + 2, Len(lines))
                  ELSE lines
    IN  IF i1 < n /\ tgt = 0 THEN [t |-> t, err |-> "IndexError"]
        ELSE IF i1 < n
        THEN [t |-> Tags(ListInsert(
                             [t.data EXCEPT
                                 ![tgt].comments.preceding_lines = lines1],
                             i1, item1),
                         t.remainder),
              err |-> "none"]
        ELSE [t |-> Tags(ListInsert(t.data, i1, item1), lines1),
              err |-> "none"]

\* a value of an attribute or of a result: a string, a Tag, an index, a
\* truth value, or nothing
StrVal(x) == [kind |-> "str", str |-> x]

TagVal(x) == [kind |-> "tag", tag |-> x]

IntVal(x) == [kind |-> "int", int |-> x]

BoolVal(x) == [kind |-> "bool", bool |-> x]

NoVal == [kind |-> "none"]

\* the instance attributes of a fresh Tags object besides data and _remainder
NoAttrs == [n \in {} |-> NoVal]

\* object.__setattr__(name, value) on the instance attributes a
ObjectSetAttr(a, name, value) ==
    [n \in DOMAIN a \cup {name} |-> IF n = name THEN value ELSE a[n]]

\* object.__delattr__(name) on the instance attributes a
ObjectDelAttr(a, name) == [n \in DOMAIN a \ {name} |-> a[n]]

\* tags.<name>: an instance attribute of that name is found by the normal
\* lookup, and Tags.__getattr__ runs only when there is none
TagsGetAttr(t, a, name) ==
    IF name \in DOMAIN a THEN [err |-> "none", result |-> a[name]]
    ELSE IF ~TagsContains(t, name)
    THEN [err |-> "AttributeError", result |-> NoVal]
    ELSE IF TagsFind(t, name) = -1
    THEN [err |-> "AttributeError", result |-> NoVal]
    ELSE [err |-> "none", result |-> TagVal(t.data[TagsFind(t, name) + 1])]

\* tags.<name> = value (Tags.__setattr__), value a Tag or a string
TagsSetAttr(t, a, name, value) ==
    IF ~TagsContains(t, name)
    THEN [t |-> t, attrs |-> ObjectSetAttr(a, name, value), err |-> "none"]
    ELSE IF TagsFind(t, name) = -1
    THEN [t |-> t, attrs |-> a, err |-> "AttributeError"]
    ELSE LET k == TagsFind(t, name) + 1
         IN  [t |-> Tags(IF value.kind = "tag"
                         THEN [t.data EXCEPT ![k] = value.tag]
                         ELSE [t.data EXCEPT ![k].value = value.str],
                         t.remainder),
              attrs |-> a, err |-> "none"]

\* the deletion del tags.<name> makes of the tag it found at position k
\* (1-based): del self.data[...], on the list itself
DelAttrRemove(t, k) == Tags(RemoveAt(t.data, k), t.remainder)

\* del tags.<name> (Tags.__delattr__)
TagsDelAttr(t, a, name) ==
    IF ~TagsContains(t, name)
    THEN IF name \in DOMAIN a
         THEN [t |-> t, attrs |-> ObjectDelAttr(a, name), err |-> "none"]
         ELSE [t |-> t, attrs |-> a, err |-> "AttributeError"]
    ELSE IF TagsFind(t, name) = -1
    THEN [t |-> t, attrs |-> a, err |-> "AttributeError"]
    ELSE [t |-> DelAttrRemove(t, TagsFind(t, name) + 1),
          attrs |-> a, err |-> "none"]

(***************************************************************************)
(* specfile/sourcelist.py                                                  *)
(***************************************************************************)

\* SourcelistEntry(location, comments)
SourcelistEntry(location, comments) ==
    [location |-> location, comments |-> CommentsCopy(comments)]

\* Sourcelist(data, remainder)
Sourcelist(data, remainder) == [data |-> data, remainder |-> remainder]

\* the test of Sourcelist.parse that makes a line an entry
IsSourcelistEntry(line) == line # "" /\ ~StartsWith(LStrip(line), "#")

\* the loop of Sourcelist.parse at line i
RECURSIVE SourcelistParseLoop(_, _, _, _)
SourcelistParseLoop(section, i, data, buffer) ==
    IF i > Len(section) THEN Sourcelist(data, buffer)
    ELSE IF IsSourcelistEntry(section[i])
    THEN SourcelistParseLoop(
             section, i + 1,
             Append(data, SourcelistEntry(section[i], CommentsParse(buffer))),
             <<>>)
    ELSE SourcelistParseLoop(section, i + 1, data, Append(buffer, section[i]))

\* Sourcelist.parse(section)
SourcelistParse(section) == SourcelistParseLoop(section, 1, <<>>, <<>>)

\* Sourcelist.get_raw_section_data()
SourcelistGetRawSectionData(sl) ==
    Flatten([k \in 1..Len(sl.data) |->
                CommentsGetRawData(sl.data[k].comments)
                    \o <<sl.data[k].location>>])
        \o sl.remainder

(***************************************************************************)
(* specfile/spec_parser.py: the files of sourcedir and the placeholders    *)
(***************************************************************************)

\* the position of the last "/" of s, 0 when s holds none
RECURSIVE LastSlash(_, _)
LastSlash(s, i) ==
    IF i = 0 THEN 0
    ELSE IF Ch(s, i) = "/" THEN i
    ELSE LastSlash(s, i - 1)

\* get_filename_from_location(location): the basename of the location, the
\* empty string when the location names no file
get_filename_from_location(location) ==
    From(location, LastSlash(location, Len(location)) + 1)

\* the content of a path of sourcedir that is not a file
Absent == [kind |-> "absent"]

\* the content of a file the caller put into sourcedir
RealFile == [kind |-> "real"]

\* the content path.write_bytes(bytes) leaves
BytesFile(bytes) == [kind |-> "bytes", bytes |-> bytes]

\* the content path.write_text(text) leaves
TextFile(text) == [kind |-> "text", text |-> text]

\* path.is_file() of sourcedir / filename
IsFile(dir, filename) == dir[filename] # Absent

\* the names of the files of the directory
FilesOf(dir) == {f \in DOMAIN dir : IsFile(dir, f)}

\* the extensions and the magic bytes RPM tells compressed files by
SIGNATURES ==
    << [ext |-> ".bz2", magic |-> <<66, 90, 104>>],
       [ext |-> ".zip", magic |-> <<80, 75, 48, 48>>],
       [ext |-> ".xz", magic |-> <<253, 55, 122, 88, 90, 0>>],
       [ext |-> ".zst", magic |-> <<40, 181, 47>>],
       [ext |-> ".lz", magic |-> <<76, 90, 73, 80>>],
       [ext |-> ".lrz", magic |-> <<76, 82, 90, 73>>],
       [ext |-> ".gz", magic |-> <<31, 139>>],
       [ext |-> ".7z", magic |-> <<55, 122, 188, 175, 39, 28>>] >>

\* the number of bytes RPM reads to determine the file type
MAGIC_LENGTH == 13

\* bytes.ljust(n, b"\x00")
LJust(bytes, n) ==
    IF Len(bytes) >= n THEN bytes
    ELSE bytes \o [i \in 1..(n - Len(bytes)) |-> 0]

\* the bytes written to the placeholder of a source: the magic of the first
\* signature whose extension the filename ends with, filled with zero
\* bytes, or zero bytes only
DummyBytes(filename) ==
    LET hits == {k \in 1..Len(SIGNATURES) :
                     EndsWith(filename, SIGNATURES[k].ext)}
    IN  IF hits = {} THEN [i \in 1..MAGIC_LENGTH |-> 0]
        ELSE LJust(SIGNATURES[CHOOSE k \in hits : \A j \in hits : k <= j]
                       .magic,
                   MAGIC_LENGTH)

MissingUnchecked(dir, locations) ==
    {get_filename_from_location(l) : l \in locations} \ {""}

\* the filenames a loop of _make_dummy_sources writes: those of the
\* locations that name a file which is not in the directory
Missing(dir, locations) ==
    {f \in {get_filename_from_location(l) : l \in locations} :
         f # "" /\ ~IsFile(dir, f)}

MakeDummySourcesNowhere(dir, srcs, non_empty) ==
    [dir |-> dir,
     dummy_sources |-> Missing(dir, srcs) \cup Missing(dir, non_empty)]

\* _make_dummy_sources(sources, non_empty_sources) up to its yield: the
\* directory after the two loops and the placeholders created
MakeDummySources(dir, srcs, non_empty) ==
    LET first == Missing(dir, srcs)
        dir1 == [f \in DOMAIN dir |->
                    IF f \in first THEN BytesFile(DummyBytes(f)) ELSE dir[f]]
        second == Missing(dir1, non_empty)
        dir2 == [f \in DOMAIN dir |->
                    IF f \in second THEN TextFile("DUMMY") ELSE dir1[f]]
    IN  [dir |-> dir2, dummy_sources |-> first \cup second]

UnlinkNone(dir, dummy) == dir

\* _make_dummy_sources after its yield: path.unlink() of every placeholder
Unlink(dir, dummy) ==
    [f \in DOMAIN dir |-> IF f \in dummy THEN Absent ELSE dir[f]]

(***************************************************************************)
(* The editing model: one Tags object and one Sourcelist object, parsed    *)
(* from a section and then edited.  Every Tag that enters the collection   *)
(* is a fresh object, so records stand for the objects.  The two objects   *)
(* share nothing: a behaviour edits one of them.  The queries (name in     *)
(* tags, tags.find(name), tags.<name>) change nothing and are the          *)
(* operators TagsContains, TagsFind and TagsGetAttr, evaluated in a state. *)
(***************************************************************************)

VARIABLES
    tags,        \* the Tags object: data and _remainder
    attrs,       \* the other instance attributes of the Tags object
    sourcelist,  \* the Sourcelist object: data and _remainder
    last,        \* the last operation: its arguments, its outcome, and the
                 \* Tags object before it
    nops,        \* the number of editing operations so far
    arg,         \* the arguments drawn for a call of Tag or of Tags.parse
    call,        \* the outcome of that call
    sourcedir,   \* the content of every path of the source directory
    force_parse, \* SpecParser.force_parse
    parser,      \* SpecParser.spec and SpecParser.tainted
    pc,          \* where the call of parse stands
    scan,        \* what the static scan of the content finds
    locals,      \* the local variables of _do_parse
    exc,         \* the exception the call ended with
    atCall,      \* the source directory when the call began
    invocations, \* the oracle invocations of the call so far
    ncalls,      \* the calls of parse so far
    macros,      \* SpecParser.macros
    extra_macros, \* the extra_macros of the call
    context,     \* the global macro context of RPM
    log,         \* the oracle invocations of the call, in order
    created,     \* the placeholders the call has created
    heap,        \* the Comment objects, or the Tag objects, by identity
    objs,        \* two Comments objects: the one a Tag was constructed
                 \* from and the one the Tag holds; or two Tags objects:
                 \* a collection and a copy or slice of it
    change,      \* the last change made through one of the two, and what
                 \* both rendered before it
    nchanges,    \* the number of changes so far
    procs,       \* two calls of parse on one source directory: where each
                 \* stands in _make_dummy_sources and what it did
    shared,      \* the content of every path of that source directory
    serialized,  \* whether the callers let one call end before the other
                 \* begins
    environ,     \* os.environ
    oracleEnv,   \* the last oracle invocation: os.environ before it and
                 \* while the oracle ran, and whether the oracle returned
    nenv         \* the oracle invocations so far

editVars == <<tags, attrs, sourcelist, last, nops>>

pureVars == <<arg, call>>

parserVars ==
    <<sourcedir, force_parse, parser, pc, scan, locals, exc, atCall,
      invocations, ncalls, macros, extra_macros, context, log, created>>

objectVars == <<heap, objs, change, nchanges>>

raceVars == <<procs, shared, serialized>>

envVars == <<environ, oracleEnv, nenv>>

vars ==
    <<editVars, pureVars, parserVars, objectVars, raceVars, envVars>>

\* the longest section parsed, in lines
MaxLines == 3

\* the most editing operations in one behaviour
MaxOps == 2

\* the lines sections are made of
LinePool == {"", "# c1", "%endif", "Url: a", "URL: c", "Source1: b"}

\* two comment lines, Source0, an empty line, Source1
ScenarioSection ==
    <<"# c1", "# c2", "Source0: foo.tar.gz", "", "Source1: bar.tar.gz">>

Sections ==
    UNION {[1..n -> LinePool] : n \in 0..MaxLines} \cup {ScenarioSection}

\* the names used for access by name
LookupNames == {"url", "SOURCE1"}

\* the tags a caller constructs to insert or to assign
NewTags ==
    {Tag("URL", "u", None, ": ", Comments(<<>>, <<>>)),
     Tag("Source1", "n", None, ":",
         Comments(<<Comment("new", "# ")>>, <<"">>))}

\* the values assigned by name
NewValues == {StrVal("v"), StrVal("")} \cup {TagVal(x) : x \in NewTags}

\* the entry a caller constructs to insert into a Sourcelist
NewEntries == {SourcelistEntry("n.patch", Comments(<<>>, <<"">>))}

AnIndex(i) == [slice |-> FALSE, a |-> i, b |-> 0]

ASlice(a, b) == [slice |-> TRUE, a |-> a, b |-> b]

\* the indexes and slices given to del tags[...] on n tags: every valid
\* index, the first index out of range, and the slices of two tags or more
DelIndexes(n) ==
    {AnIndex(i) : i \in (-n)..n}
        \cup {ASlice(ab[1], ab[2]) :
                  ab \in {x \in (0..n) \X (0..n) : x[1] + 2 <= x[2]}}

\* the indexes given to tags.insert on n tags
InsertIndexes(n) == (-1)..(n + 1)

Last(op, name, index, value, err, result) ==
    [op |-> op, name |-> name, index |-> index, value |-> value,
     err |-> err, result |-> result, pre |-> tags, preattrs |-> attrs]

\* the operations on the Sourcelist object
SlOps == {"sl_parse", "sl_insert", "sl_delitem"}

\* the behaviour edits the Tags object, or the Sourcelist object
EditsTags == last.op \notin SlOps

EditsSourcelist == last.op \in SlOps

InitEdit ==
    /\ tags = Tags(<<>>, <<>>)
    /\ attrs = NoAttrs
    /\ sourcelist = Sourcelist(<<>>, <<>>)
    /\ last = [op |-> "init", name |-> "", index |-> AnIndex(0),
               value |-> NoVal, err |-> "none", result |-> NoVal,
               pre |-> Tags(<<>>, <<>>), preattrs |-> NoAttrs]
    /\ nops = 0

\* tags = Tags.parse(raw_section, parsed_section), on a fresh start
ParseTags ==
    /\ last.op = "init"
    /\ \E raw \in Sections :
            /\ tags' = TagsParse(raw, None)
            /\ last' = Last("parse", "", AnIndex(0), NoVal, "none", NoVal)
    /\ UNCHANGED <<attrs, sourcelist, nops>>
    /\ UNCHANGED <<pureVars, parserVars, objectVars, raceVars, envVars>>

\* sourcelist = Sourcelist.parse(section), on a fresh start
ParseSourcelist ==
    /\ last.op = "init"
    /\ \E section \in Sections :
            sourcelist' = SourcelistParse(section)
    /\ last' = Last("sl_parse", "", AnIndex(0), NoVal, "none", NoVal)
    /\ UNCHANGED <<tags, attrs, nops>>
    /\ UNCHANGED <<pureVars, parserVars, objectVars, raceVars, envVars>>

\* del tags[i]
DelItem ==
    /\ EditsTags
    /\ nops < MaxOps
    /\ \E i \in DelIndexes(Len(tags.data)) :
            LET r == TagsDelItem(tags, i)
            IN  /\ tags' = r.t
                /\ last' = Last("delitem", "", i, NoVal, r.err, NoVal)
    /\ nops' = nops + 1
    /\ UNCHANGED <<attrs, sourcelist>>
    /\ UNCHANGED <<pureVars, parserVars, objectVars, raceVars, envVars>>

\* del tags.<name>
DelAttr ==
    /\ EditsTags
    /\ nops < MaxOps
    /\ \E name \in LookupNames :
            LET r == TagsDelAttr(tags, attrs, name)
            IN  /\ tags' = r.t
                /\ attrs' = r.attrs
                /\ last' = Last("delattr", name, AnIndex(0), NoVal, r.err,
                                NoVal)
    /\ nops' = nops + 1
    /\ UNCHANGED sourcelist
    /\ UNCHANGED <<pureVars, parserVars, objectVars, raceVars, envVars>>

\* tags.insert(i, item)
Insert ==
    /\ EditsTags
    /\ nops < MaxOps
    /\ \E i \in InsertIndexes(Len(tags.data)), item \in NewTags :
            LET r == TagsInsert(tags, i, item)
            IN  /\ tags' = r.t
                /\ last' = Last("insert", "", AnIndex(i), TagVal(item), r.err,
                                NoVal)
    /\ nops' = nops + 1
    /\ UNCHANGED <<attrs, sourcelist>>
    /\ UNCHANGED <<pureVars, parserVars, objectVars, raceVars, envVars>>

\* tags.<name> = value
SetAttr ==
    /\ EditsTags
    /\ nops < MaxOps
    /\ \E name \in LookupNames, value \in NewValues :
            LET r == TagsSetAttr(tags, attrs, name, value)
            IN  /\ tags' = r.t
                /\ attrs' = r.attrs
                /\ last' = Last("setattr", name, AnIndex(0), value, r.err,
                                NoVal)
    /\ nops' = nops + 1
    /\ UNCHANGED sourcelist
    /\ UNCHANGED <<pureVars, parserVars, objectVars, raceVars, envVars>>

\* sourcelist.insert(i, entry): UserList.insert, on the list
SlInsert ==
    /\ EditsSourcelist
    /\ nops < MaxOps
    /\ \E i \in 0..Len(sourcelist.data), entry \in NewEntries :
            sourcelist' =
                Sourcelist(ListInsert(sourcelist.data, i, entry),
                           sourcelist.remainder)
    /\ last' = Last("sl_insert", "", AnIndex(0), NoVal, "none", NoVal)
    /\ nops' = nops + 1
    /\ UNCHANGED <<tags, attrs>>
    /\ UNCHANGED <<pureVars, parserVars, objectVars, raceVars, envVars>>

\* del sourcelist[i]: UserList.__delitem__, on the list
SlDelItem ==
    /\ EditsSourcelist
    /\ nops < MaxOps
    /\ \E i \in 0..(Len(sourcelist.data) - 1) :
            sourcelist' =
                Sourcelist(RemoveAt(sourcelist.data, i + 1),
                           sourcelist.remainder)
    /\ last' = Last("sl_delitem", "", AnIndex(0), NoVal, "none", NoVal)
    /\ nops' = nops + 1
    /\ UNCHANGED <<tags, attrs>>
    /\ UNCHANGED <<pureVars, parserVars, objectVars, raceVars, envVars>>

(***************************************************************************)
(* The constructor of Tag and Tags.parse with a parsed section, as         *)
(* functions of their arguments: a behaviour draws the arguments and       *)
(* applies the function to them.                                           *)
(***************************************************************************)

\* the most lines of a raw section given to Tags.parse
MaxRaw == 2

\* the most lines of a parsed section given to Tags.parse
MaxParsed == 2

\* the names given to the constructor of Tag
CtorNames ==
    {"Name", "name", "SOURCE0", "Patch", "Summary(de)", "Requires(pre)",
     "Namefoo", "Source0x", "Summary(de)x", "foo", "xName", ""}

\* the lines raw sections are made of
RawPool == {"Requires: a", "Requires: b", "Url: %{u}", "# c"}

\* the lines parsed sections are made of
ParsedPool == {"Requires: a", "Requires: b", "Url: x"}

RawSections == UNION {[1..n -> RawPool] : n \in 0..MaxRaw}

ParsedSections ==
    {None} \cup {Some(s) : s \in UNION {[1..n -> ParsedPool] :
                                           n \in 0..MaxParsed}}

\* the arguments of a call
Args(op, name, raw, parsed) ==
    [op |-> op, name |-> name, raw |-> raw, parsed |-> parsed]

\* the most lines given to Comments.parse
MaxRun == 3

\* the lines given to Comments.parse
RunPool == {"# c", " #d", "#", "", "x"}

RunLines == UNION {[1..n -> RunPool] : n \in 0..MaxRun}

ArgsDrawn ==
    {Args("Tag", name, <<>>, None) : name \in CtorNames}
        \cup {Args("parse", "", raw, parsed) :
                  raw \in RawSections, parsed \in ParsedSections}
        \cup {Args("comments", "", lines, None) : lines \in RunLines}

\* the outcome of a call: the exception it ends with, the Tag or the Tags
\* it returns
Outcome(op, err, tag, t) == [op |-> op, err |-> err, tag |-> tag, tags |-> t]

NoCall == Outcome("none", "none", None, Tags(<<>>, <<>>))

InitPure ==
    /\ arg \in ArgsDrawn
    /\ call = NoCall

\* Tag(name, "v", None, ": ", Comments())
NewTag ==
    /\ call = NoCall
    /\ arg.op = "Tag"
    /\ call' = IF TagNameAccepted(arg.name)
               THEN Outcome("Tag", "none",
                            Some(Tag(arg.name, "v", None, ": ",
                                     Comments(<<>>, <<>>))),
                            Tags(<<>>, <<>>))
               ELSE Outcome("Tag", "ValueError", None, Tags(<<>>, <<>>))
    /\ UNCHANGED arg
    /\ UNCHANGED <<editVars, parserVars, objectVars, raceVars, envVars>>

\* Tags.parse(raw_section, parsed_section)
ParseSection ==
    /\ call = NoCall
    /\ arg.op = "parse"
    /\ call' = Outcome("parse", "none", None, TagsParse(arg.raw, arg.parsed))
    /\ UNCHANGED arg
    /\ UNCHANGED <<editVars, parserVars, objectVars, raceVars, envVars>>

\* Comments.parse(lines)
ParseComments ==
    /\ call = NoCall
    /\ arg.op = "comments"
    /\ call' = [op |-> "comments", err |-> "none", tag |-> None,
                tags |-> Tags(<<>>, <<>>),
                comments |-> CommentsParse(arg.raw)]
    /\ UNCHANGED arg
    /\ UNCHANGED <<editVars, parserVars, objectVars, raceVars, envVars>>

(***************************************************************************)
(* The pipeline of SpecParser.parse: one parser on one sourcedir.  The     *)
(* RPM oracle (rpm.spec) is a choice: an invocation succeeds, reporting    *)
(* some sources, or fails.  The content of the spec file is the result     *)
(* its static scan gives.  A step runs the code from one oracle            *)
(* invocation to the next.                                                 *)
(***************************************************************************)

\* the most calls of parse in one behaviour
MaxCalls == 2

\* the paths of sourcedir
FileNames == {"a.tar.gz", "b.inc", "c.sh"}

\* the locations the oracle reports as sources of the spec file
SourcePool ==
    {"https://e.org/a.tar.gz", "c.sh", "https://e.org/c.sh", "https://e.org/"}

\* the names collect_included_sources finds
IncludedPool == {"b.inc", "c.sh"}

\* the names collect_sources_referenced_from_tags finds
ReferencedPool == {"c.sh"}

\* the result of the static scan of a content
Scans ==
    {[included |-> i, referenced |-> r] :
         i \in SUBSET IncludedPool, r \in SUBSET ReferencedPool}

\* a macro definition (name, value)
Macro(name, value) == [name |-> name, value |-> value]

\* the macros given to the constructor of SpecParser
MacroLists == {<<>>, <<Macro("dist", ".fc35")>>}

\* the extra_macros given to parse
ExtraMacroLists == {<<>>, <<Macro("_sourcedir", "/elsewhere")>>}

\* str(self.sourcedir)
SourcedirPath == "/sourcedir"

\* Macros.reinit() on the global macro context: the definitions so far
\* are dropped
MacrosReinit(ctx) == <<>>

\* Macros.define(name, value) on the global macro context: the definition
\* is put on top of the earlier ones
MacrosDefine(ctx, name, value) == Append(ctx, Macro(name, value))

\* Macros.define of every macro of a list, in list order
RECURSIVE DefineAll(_, _)
DefineAll(ctx, defs) ==
    IF defs = <<>> THEN ctx
    ELSE DefineAll(MacrosDefine(ctx, Head(defs).name, Head(defs).value),
                   Tail(defs))

PreparedContextNoReinit(ctx, parser_macros, extra) ==
    MacrosDefine(DefineAll(ctx, parser_macros \o extra),
                 "_sourcedir", SourcedirPath)

\* the global macro context get_rpm_spec hands to the oracle: reinit, the
\* macros of the parser, the extra macros of the call, then _sourcedir
PreparedContext(ctx, parser_macros, extra) ==
    MacrosDefine(DefineAll(MacrosReinit(ctx), parser_macros \o extra),
                 "_sourcedir", SourcedirPath)

\* the macro the content of the spec file defines while the oracle runs
DefinedByContent == Macro("during", "1")

\* the global macro context an oracle invocation leaves
OracleRan(ctx) == Append(ctx, DefinedByContent)

\* the value of a macro in a context: that of its last definition
MacroValue(ctx, name) ==
    LET ks == {k \in 1..Len(ctx) : ctx[k].name = name}
    IN  IF ks = {} THEN None
        ELSE Some(ctx[CHOOSE k \in ks : \A j \in ks : j <= k].value)

\* the attributes spec and tainted of a fresh SpecParser
NewParser == [spec |-> "None", tainted |-> FALSE]

NoLocalsTainted ==
    [sources |-> {}, non_empty_sources |-> {}, dummy_sources |-> {},
     tainted |-> TRUE, spec |-> "unbound"]

\* the local variables of _do_parse when it starts
NoLocals ==
    [sources |-> {}, non_empty_sources |-> {}, dummy_sources |-> {},
     tainted |-> FALSE, spec |-> "unbound"]

KeepSpec(l) == [l EXCEPT !.spec = "handle"]

\* del spec
DelSpec(l) == [l EXCEPT !.spec = "unbound"]

\* the variables that hold an rpm.spec instance
Held ==
    {h \in {"self.spec"} : parser.spec = "handle"}
        \cup {h \in {"spec"} : locals.spec = "handle"}

\* an oracle invocation: which one of the call it is, whether it returned,
\* the source directory, the macro context and the rpm.spec instances
\* alive when it ran
Invocation(which, ok, dir, ctx, held) ==
    [which |-> which, ok |-> ok, dir |-> dir, context |-> ctx, held |-> held]

ParserIdle ==
    /\ sourcedir = [f \in FileNames |-> Absent]
    /\ force_parse = FALSE
    /\ parser = NewParser
    /\ pc = "idle"
    /\ scan = [included |-> {}, referenced |-> {}]
    /\ locals = NoLocals
    /\ exc = "none"
    /\ atCall = [f \in FileNames |-> Absent]
    /\ invocations = 0
    /\ ncalls = 0
    /\ macros = <<>>
    /\ extra_macros = <<>>
    /\ context = <<>>
    /\ log = <<>>
    /\ created = {}

\* SpecParser(sourcedir, macros, force_parse) on a directory that holds
\* some files
InitParser ==
    /\ sourcedir \in [FileNames -> {Absent, RealFile}]
    /\ force_parse \in BOOLEAN
    /\ parser = NewParser
    /\ pc = "idle"
    /\ scan = [included |-> {}, referenced |-> {}]
    /\ locals = NoLocals
    /\ exc = "none"
    /\ atCall = sourcedir
    /\ invocations = 0
    /\ ncalls = 0
    /\ macros \in MacroLists
    /\ extra_macros = <<>>
    /\ context = <<>>
    /\ log = <<>>
    /\ created = {}

RaiseUnbound(e) ==
    /\ pc' = "raised"
    /\ exc' = "UnboundLocalError"

\* the call ends by raising e
Raise(e) ==
    /\ pc' = "raised"
    /\ exc' = e

\* get_rpm_spec(content, flags): the macro context is prepared and the
\* oracle runs, returning a handle (ok) or raising RPMException
GetRpmSpec(ok) ==
    LET ctx == PreparedContext(context, macros, extra_macros)
    IN  /\ log' = Append(log, Invocation(pc, ok, sourcedir, ctx, Held))
        /\ context' = OracleRan(ctx)
        /\ invocations' = invocations + 1

\* parser.parse(content, extra_macros): `if self.spec: del self.spec`, then
\* _do_parse up to its first oracle invocation
ParseCall ==
    /\ pc = "idle"
    /\ ncalls < MaxCalls
    /\ ncalls' = ncalls + 1
    /\ atCall' = sourcedir
    /\ invocations' = 0
    /\ log' = <<>>
    /\ created' = {}
    /\ locals' = NoLocals
    /\ extra_macros' \in ExtraMacroLists
    /\ IF parser.spec = "deleted"
       THEN /\ Raise("AttributeError")
            /\ UNCHANGED <<parser, scan>>
       ELSE /\ parser' = IF parser.spec = "handle"
                         THEN [parser EXCEPT !.spec = "deleted"]
                         ELSE parser
            /\ \E content \in Scans : scan' = content
            /\ pc' = "first"
            /\ exc' = "none"
    /\ UNCHANGED <<sourcedir, force_parse, macros, context>>
    /\ UNCHANGED <<editVars, pureVars, objectVars, raceVars, envVars>>

\* the first oracle invocation returns a handle: sources are the sources
\* it reports, the handle is deleted, and the placeholders of the full
\* parse are created
FirstSucceeds ==
    /\ pc = "first"
    /\ GetRpmSpec(TRUE)
    /\ \E reported \in SUBSET SourcePool :
           LET made == MakeDummySources(sourcedir, reported, {})
           IN  /\ sourcedir' = made.dir
               /\ created' = created \cup made.dummy_sources
               /\ locals' = DelSpec([locals EXCEPT
                                        !.sources = reported,
                                        !.non_empty_sources = {},
                                        !.dummy_sources = made.dummy_sources,
                                        !.spec = "handle"])
    /\ pc' = "third"
    /\ UNCHANGED <<force_parse, parser, scan, exc, atCall, ncalls, macros,
                   extra_macros>>
    /\ UNCHANGED <<editVars, pureVars, objectVars, raceVars, envVars>>

\* the first oracle invocation raises RPMException: without force_parse,
\* or when the scan finds nothing, it is raised again; otherwise the
\* placeholders of the scanned sources are created and, when there are
\* any, the second invocation follows; when there are none `del spec` finds
\* spec unbound
FirstFails ==
    /\ pc = "first"
    /\ GetRpmSpec(FALSE)
    /\ IF ~force_parse \/ (scan.included = {} /\ scan.referenced = {})
       THEN /\ Raise("RPMException")
            /\ UNCHANGED <<sourcedir, locals, created>>
       ELSE LET made == MakeDummySources(sourcedir, scan.included,
                                         scan.referenced)
                entered == [locals EXCEPT
                               !.sources = scan.included,
                               !.non_empty_sources = scan.referenced,
                               !.dummy_sources = made.dummy_sources]
            IN  IF made.dummy_sources # {}
                THEN /\ sourcedir' = made.dir
                     /\ created' = created \cup made.dummy_sources
                     /\ locals' = [entered EXCEPT !.tainted = TRUE]
                     /\ pc' = "second"
                     /\ UNCHANGED exc
                ELSE /\ sourcedir' = made.dir
                     /\ locals' = entered
                     /\ Raise("UnboundLocalError")
                     /\ UNCHANGED created
    /\ UNCHANGED <<force_parse, parser, scan, atCall, ncalls, macros,
                   extra_macros>>
    /\ UNCHANGED <<editVars, pureVars, objectVars, raceVars, envVars>>

\* the second oracle invocation returns a handle: sources are the sources
\* it reports without the non-empty ones, the with block ends and unlinks
\* its placeholders, the handle is deleted, and the placeholders of the
\* full parse are created
SecondSucceeds ==
    /\ pc = "second"
    /\ GetRpmSpec(TRUE)
    /\ \E reported \in SUBSET SourcePool :
           LET srcs == reported \ locals.non_empty_sources
               left == Unlink(sourcedir, locals.dummy_sources)
               made == MakeDummySources(left, srcs, locals.non_empty_sources)
           IN  /\ sourcedir' = made.dir
               /\ created' = created \cup made.dummy_sources
               /\ locals' = DelSpec([locals EXCEPT
                                        !.sources = srcs,
                                        !.dummy_sources = made.dummy_sources,
                                        !.spec = "handle"])
    /\ pc' = "third"
    /\ UNCHANGED <<force_parse, parser, scan, exc, atCall, ncalls, macros,
                   extra_macros>>
    /\ UNCHANGED <<editVars, pureVars, objectVars, raceVars, envVars>>

SecondFailsRetried ==
    /\ pc = "second"
    /\ invocations < 3
    /\ GetRpmSpec(FALSE)
    /\ UNCHANGED <<sourcedir, force_parse, parser, pc, scan, locals, exc,
                   atCall, ncalls, macros, extra_macros, created>>
    /\ UNCHANGED <<editVars, pureVars, objectVars, raceVars, envVars>>

\* the second oracle invocation raises RPMException: it leaves the with
\* block through the yield of _make_dummy_sources, which has no finally
SecondFails ==
    /\ pc = "second"
    /\ GetRpmSpec(FALSE)
    /\ Raise("RPMException")
    /\ UNCHANGED <<sourcedir, force_parse, parser, scan, locals, atCall,
                   ncalls, macros, extra_macros, created>>
    /\ UNCHANGED <<editVars, pureVars, objectVars, raceVars, envVars>>

\* the full oracle invocation returns a handle: the with block ends and
\* unlinks its placeholders, and parse sets spec and tainted
ThirdSucceeds ==
    /\ pc = "third"
    /\ GetRpmSpec(TRUE)
    /\ sourcedir' = Unlink(sourcedir, locals.dummy_sources)
    /\ parser' = [spec |-> "handle", tainted |-> locals.tainted]
    /\ pc' = "done"
    /\ UNCHANGED <<force_parse, scan, locals, exc, atCall, ncalls, macros,
                   extra_macros, created>>
    /\ UNCHANGED <<editVars, pureVars, objectVars, raceVars, envVars>>

\* the full oracle invocation raises RPMException, through the yield of
\* _make_dummy_sources
ThirdFails ==
    /\ pc = "third"
    /\ GetRpmSpec(FALSE)
    /\ Raise("RPMException")
    /\ UNCHANGED <<sourcedir, force_parse, parser, scan, locals, atCall,
                   ncalls, macros, extra_macros, created>>
    /\ UNCHANGED <<editVars, pureVars, objectVars, raceVars, envVars>>

\* the caller goes on after the call
Continue ==
    /\ pc \in {"done", "raised"}
    /\ pc' = "idle"
    /\ UNCHANGED <<sourcedir, force_parse, parser, scan, locals, exc, atCall,
                   invocations, ncalls, macros, extra_macros, context, log,
                   created>>
    /\ UNCHANGED <<editVars, pureVars, objectVars, raceVars, envVars>>

(***************************************************************************)
(* The object model: a Comments object and the comments attribute of a Tag *)
(* constructed from it.  A Comment is an object of the heap, and the data  *)
(* of a Comments object are references to Comment objects.                 *)
(***************************************************************************)

\* the most comments of the Comments object a Tag is constructed from
MaxComments == 2

\* the most changes in one behaviour
MaxChanges == 2

\* the two Comments objects
Sides == {"original", "tag"}

\* the texts written by the changes
NewTexts == {"new"}

\* the comments the original is made of
InitialComments == <<Comment("one", "# "), Comment("two", "#")>>

\* Comments.get_raw_data() of an object whose data are references into h
RawDataIn(h, c) ==
    CommentsGetRawData(
        Comments([k \in 1..Len(c.data) |-> h[c.data[k]]], c.preceding_lines))

\* what both objects render
Rendered == [s \in Sides |-> RawDataIn(heap, objs[s])]

ObjectsIdle ==
    /\ heap = <<>>
    /\ objs = [s \in Sides |-> Comments(<<>>, <<>>)]
    /\ change = [side |-> "none", op |-> "init",
                 pre |-> [s \in Sides |-> <<>>]]
    /\ nchanges = 0

\* original = Comments(data, preceding_lines);
\* tag = Tag("Name", "v", "v", ": ", original)
InitObjects ==
    \E n \in 0..MaxComments, pl \in {<<>>, <<"">>} :
        LET original == Comments([k \in 1..n |-> k], pl)
        IN  /\ heap = SubSeq(InitialComments, 1, n)
            /\ objs = [s \in Sides |->
                          IF s = "original" THEN original
                          ELSE Tag("Name", "v", Some("v"), ": ",
                                   original).comments]
            /\ change = [side |-> "none", op |-> "init",
                         pre |-> [s \in Sides |->
                                     RawDataIn(SubSeq(InitialComments, 1, n),
                                               original)]]
            /\ nchanges = 0

\* what every change records
Changed(side, op) ==
    /\ nchanges < MaxChanges
    /\ nchanges' = nchanges + 1
    /\ change' = [side |-> side, op |-> op, pre |-> Rendered]
    /\ UNCHANGED <<editVars, pureVars, parserVars, raceVars, envVars>>

\* comments[i] = text: the text of the Comment object at i is replaced
SetItemStr(side) ==
    /\ Changed(side, "setitem")
    /\ \E i \in 1..Len(objs[side].data), text \in NewTexts :
           heap' = [heap EXCEPT ![objs[side].data[i]].text = text]
    /\ UNCHANGED objs

\* comments[i] = Comment(text): the reference at i is replaced
SetItemComment(side) ==
    /\ Changed(side, "setitem")
    /\ \E i \in 1..Len(objs[side].data), text \in NewTexts :
           /\ heap' = Append(heap, Comment(text, "# "))
           /\ objs' = [objs EXCEPT ![side].data[i] = Len(heap) + 1]

\* comments[lo:hi] = [text, ...], as many texts as the slice has places:
\* the text of each Comment object of the slice is replaced
SetSliceStr(side) ==
    /\ Changed(side, "setslice")
    /\ \E lo \in 1..Len(objs[side].data), text \in NewTexts :
           \E hi \in lo..Len(objs[side].data) :
               heap' = [r \in 1..Len(heap) |->
                           IF \E i \in lo..hi : objs[side].data[i] = r
                           THEN [heap[r] EXCEPT !.text = text]
                           ELSE heap[r]]
    /\ UNCHANGED objs

\* comments.append(text)
CommentsAppend(side) ==
    /\ Changed(side, "append")
    /\ \E text \in NewTexts :
           /\ heap' = Append(heap, Comment(text, "# "))
           /\ objs' = [objs EXCEPT
                          ![side].data = Append(@, Len(heap) + 1)]

\* comments.insert(i, text)
CommentsInsert(side) ==
    /\ Changed(side, "insert")
    /\ \E i \in 0..Len(objs[side].data), text \in NewTexts :
           /\ heap' = Append(heap, Comment(text, "# "))
           /\ objs' = [objs EXCEPT
                          ![side].data = ListInsert(@, i, Len(heap) + 1)]

\* comments._preceding_lines[0:0] = lines
PrependPrecedingLines(side) ==
    /\ Changed(side, "preceding_lines")
    /\ objs' = [objs EXCEPT ![side].preceding_lines = <<"">> \o @]
    /\ UNCHANGED heap

(***************************************************************************)
(* The object model of Tags: a collection and a copy or a slice of it.  A  *)
(* Tag is an object of the heap, the data of a Tags object are references  *)
(* to Tag objects, and an operation that changes a Tag in place changes    *)
(* the object.                                                             *)
(***************************************************************************)

\* the two Tags objects
Owners == {"original", "copy"}

\* the Tags object c, whose data are references into h, with the Tag
\* objects in place of the references
TagsIn(h, c) == Tags([k \in 1..Len(c.data) |-> h[c.data[k]]], c.remainder)

\* both collections
Collections == [s \in Owners |-> TagsIn(heap, objs[s])]

\* the heap after an operation on a collection whose references are now
\* ids left the Tag objects data, position by position
WriteBack(h, ids, data) ==
    [r \in 1..Len(h) |->
        IF \E p \in 1..Len(ids) : ids[p] = r
        THEN data[CHOOSE p \in 1..Len(ids) : ids[p] = r]
        ELSE h[r]]

\* the sections the original is parsed from
CopySections ==
    UNION {[1..n -> {"", "%endif", "Url: a", "Source1: b"}] :
               n \in 1..MaxLines}

\* no collection is parsed yet
InitCopies ==
    /\ heap = <<>>
    /\ objs = [s \in Owners |-> Tags(<<>>, <<>>)]
    /\ change = [side |-> "none", op |-> "init",
                 pre |-> [s \in Owners |-> Tags(<<>>, <<>>)]]
    /\ nchanges = 0

\* original = Tags.parse(section); copy = original[a:b], which is
\* original.copy() when the slice is the whole
ParseAndCopy ==
    /\ change.op = "init"
    /\ \E section \in CopySections :
       \E parsed \in {TagsParse(section, None)} :
           LET n == Len(parsed.data)
               ids == [k \in 1..n |-> k]
           IN  \E a \in 0..n, b \in 0..n :
                   /\ a < b
                   /\ heap' = parsed.data
                   /\ objs' = [s \in Owners |->
                                  IF s = "original"
                                  THEN Tags(ids, parsed.remainder)
                                  ELSE Tags(SubSeq(ids, a + 1, b),
                                            parsed.remainder)]
    /\ change' = [change EXCEPT !.op = "copy"]
    /\ UNCHANGED nchanges
    /\ UNCHANGED <<editVars, pureVars, parserVars, raceVars, envVars>>

\* what every operation on one of the two records
CopyChanged(side, op) ==
    /\ change.op # "init"
    /\ nchanges < MaxChanges
    /\ nchanges' = nchanges + 1
    /\ change' = [side |-> side, op |-> op, pre |-> Collections]
    /\ UNCHANGED <<editVars, pureVars, parserVars, raceVars, envVars>>

\* tags.insert(i, item), 0 <= i <= len: item is a new object
CopyInsert(side) ==
    /\ CopyChanged(side, "insert")
    /\ \E i \in 0..Len(objs[side].data), item \in NewTags :
           LET r == TagsInsert(Collections[side], i, item)
               ids == ListInsert(objs[side].data, i, Len(heap) + 1)
           IN  /\ r.err = "none"
               /\ heap' = WriteBack(Append(heap, item), ids, r.t.data)
               /\ objs' = [objs EXCEPT ![side] = Tags(ids, r.t.remainder)]

\* del tags[i], 0 <= i < len
CopyDelItem(side) ==
    /\ CopyChanged(side, "delitem")
    /\ \E i \in 0..(Len(objs[side].data) - 1) :
           LET r == TagsDelItem(Collections[side], AnIndex(i))
               ids == RemoveAt(objs[side].data, i + 1)
           IN  /\ r.err = "none"
               /\ heap' = WriteBack(heap, ids, r.t.data)
               /\ objs' = [objs EXCEPT ![side] = Tags(ids, r.t.remainder)]

\* tags.<name> = "v", name the name of a tag of the collection
CopySetAttr(side) ==
    /\ CopyChanged(side, "setattr")
    /\ \E name \in LookupNames :
           LET r == TagsSetAttr(Collections[side], NoAttrs, name,
                                StrVal("v"))
           IN  /\ TagsContains(Collections[side], name)
               /\ r.err = "none"
               /\ heap' = WriteBack(heap, objs[side].data, r.t.data)
    /\ UNCHANGED objs

\* del tags.<name>, name the name of a tag of the collection
CopyDelAttr(side) ==
    /\ CopyChanged(side, "delattr")
    /\ \E name \in LookupNames :
           LET r == TagsDelAttr(Collections[side], NoAttrs, name)
           IN  /\ TagsContains(Collections[side], name)
               /\ r.err = "none"
               /\ objs' = [objs EXCEPT
                              ![side] =
                                  Tags(RemoveAt(@.data,
                                                TagsFind(Collections[side],
                                                         name) + 1),
                                       r.t.remainder)]
    /\ UNCHANGED heap

(***************************************************************************)
(* The overlap model: two calls of parse, of two processes, on one source  *)
(* directory.  Each is followed through the with block of the full parse:  *)
(* the is_file test and the write of _make_dummy_sources are steps of      *)
(* their own, then the oracle runs, then the placeholders are unlinked.    *)
(***************************************************************************)

\* the two calls
Procs == {"A", "B"}

\* a call that has not begun, with the sources its content refers to
NewProc(sources) ==
    [pc |-> "idle", sources |-> sources, todo |-> {}, path |-> "",
     dummy_sources |-> {}, skipped |-> {}, unlinked |-> {},
     missing |-> {}, exc |-> "none"]

RaceIdle ==
    /\ procs = [p \in Procs |-> NewProc({})]
    /\ shared = [f \in FileNames |-> Absent]
    /\ serialized = TRUE

InitRace ==
    /\ procs \in [Procs -> {NewProc(srcs) :
                               srcs \in SUBSET IncludedPool \ {{}}}]
    /\ shared \in [FileNames -> {Absent, RealFile}]
    /\ serialized \in BOOLEAN

\* the call is not inside _do_parse
Outside(p) == procs[p].pc \in {"idle", "done", "raised"}

\* the call enters _make_dummy_sources; serialized callers begin a call
\* when no other call is under way
RaceEnter(p) ==
    /\ procs[p].pc = "idle"
    /\ serialized => \A q \in Procs \ {p} : Outside(q)
    /\ procs' = [procs EXCEPT ![p].pc = "check",
                              ![p].todo = procs[p].sources]
    /\ UNCHANGED <<shared, serialized>>
    /\ UNCHANGED <<editVars, pureVars, parserVars, objectVars, envVars>>

\* path.is_file() for the next source: an existing file is skipped, a
\* missing one is appended to dummy_sources
RaceCheck(p) ==
    /\ procs[p].pc = "check"
    /\ \E f \in procs[p].todo :
           IF Missing(shared, {f}) = {}
           THEN procs' = [procs EXCEPT ![p].todo = @ \ {f},
                                       ![p].skipped = @ \cup {f}]
           ELSE procs' = [procs EXCEPT ![p].todo = @ \ {f},
                                       ![p].dummy_sources = @ \cup {f},
                                       ![p].path = f,
                                       ![p].pc = "write"]
    /\ UNCHANGED <<shared, serialized>>
    /\ UNCHANGED <<editVars, pureVars, parserVars, objectVars, envVars>>

RaceWriteNothing(p) ==
    /\ procs[p].pc = "write"
    /\ procs' = [procs EXCEPT ![p].pc = "check", ![p].path = ""]
    /\ UNCHANGED <<shared, serialized>>
    /\ UNCHANGED <<editVars, pureVars, parserVars, objectVars, envVars>>

\* path.write_bytes(...) of the placeholder
RaceWrite(p) ==
    /\ procs[p].pc = "write"
    /\ shared' = [shared EXCEPT
                     ![procs[p].path] = BytesFile(DummyBytes(procs[p].path))]
    /\ procs' = [procs EXCEPT ![p].pc = "check", ![p].path = ""]
    /\ UNCHANGED serialized
    /\ UNCHANGED <<editVars, pureVars, parserVars, objectVars, envVars>>

\* the loops are over: the oracle runs on the directory as it is; when it
\* returns the with block ends, when it raises the call ends
RaceOracle(p) ==
    /\ procs[p].pc = "check"
    /\ procs[p].todo = {}
    /\ \E ok \in BOOLEAN :
           procs' = [procs EXCEPT
                        ![p].missing = Missing(shared, procs[p].sources),
                        ![p].pc = IF ok THEN "unlink" ELSE "raised",
                        ![p].exc = IF ok THEN "none" ELSE "RPMException"]
    /\ UNCHANGED <<shared, serialized>>
    /\ UNCHANGED <<editVars, pureVars, parserVars, objectVars, envVars>>

\* path.unlink() of the next placeholder, which raises when the file is
\* gone; after the last one the call returns
RaceUnlink(p) ==
    /\ procs[p].pc = "unlink"
    /\ LET left == procs[p].dummy_sources \ procs[p].unlinked
       IN  IF left = {}
           THEN /\ procs' = [procs EXCEPT ![p].pc = "done"]
                /\ UNCHANGED shared
           ELSE \E f \in left :
                    IF IsFile(shared, f)
                    THEN /\ shared' = Unlink(shared, {f})
                         /\ procs' = [procs EXCEPT
                                         ![p].unlinked = @ \cup {f}]
                    ELSE /\ procs' = [procs EXCEPT
                                         ![p].pc = "raised",
                                         ![p].exc = "FileNotFoundError"]
                         /\ UNCHANGED shared
    /\ UNCHANGED serialized
    /\ UNCHANGED <<editVars, pureVars, parserVars, objectVars, envVars>>

(***************************************************************************)
(* The environment of an oracle invocation: get_rpm_spec runs the oracle   *)
(* inside _sanitize_environment.  A variable of the environment is set to  *)
(* a value or unset.                                                       *)
(***************************************************************************)

\* the most oracle invocations in one behaviour
MaxInvocations == 3

\* the variables of the environment
EnvNames == {"LANG", "LC_ALL", "HOME"}

\* the values they have when the invocation begins
EnvValues == {None, Some("C.UTF-8"), Some("cs_CZ.UTF-8")}

\* keys = ["LANG", "LC_ALL"]
SanitizedKeys == <<"LANG", "LC_ALL">>

\* os.environ[key] = value
EnvSet(e, key, value) == [e EXCEPT ![key] = Some(value)]

\* del os.environ[key]
EnvDel(e, key) == [e EXCEPT ![key] = None]

RestoreNothing(e, env, key) == e

\* restore(key): the value of the copy env is put back, and the key is
\* deleted when the copy does not have it
Restore(e, env, key) ==
    IF env[key].some THEN EnvSet(e, key, env[key].v) ELSE EnvDel(e, key)

\* for key in keys: os.environ[key] = "C.UTF-8"
RECURSIVE Sanitize(_, _)
Sanitize(e, keys) ==
    IF keys = <<>> THEN e
    ELSE Sanitize(EnvSet(e, Head(keys), "C.UTF-8"), Tail(keys))

\* for key in keys: restore(key)
RECURSIVE RestoreAll(_, _, _)
RestoreAll(e, env, keys) ==
    IF keys = <<>> THEN e
    ELSE RestoreAll(Restore(e, env, Head(keys)), env, Tail(keys))

EnvIdle ==
    /\ environ = [k \in EnvNames |-> None]
    /\ oracleEnv = [before |-> [k \in EnvNames |-> None],
                    during |-> [k \in EnvNames |-> None], ok |-> TRUE]
    /\ nenv = 0

InitEnv ==
    /\ environ \in [EnvNames -> EnvValues]
    /\ oracleEnv = [before |-> environ, during |-> environ, ok |-> TRUE]
    /\ nenv = 0

\* with self._sanitize_environment(): rpm.spec(...), which returns (ok) or
\* raises; the finally clause restores the keys either way
SanitizedInvocation(ok) ==
    /\ nenv < MaxInvocations
    /\ nenv' = nenv + 1
    /\ LET env == environ
           during == Sanitize(environ, SanitizedKeys)
       IN  /\ oracleEnv' = [before |-> env, during |-> during, ok |-> ok]
           /\ environ' = RestoreAll(during, env, SanitizedKeys)
    /\ UNCHANGED <<editVars, pureVars, parserVars, objectVars, raceVars>>

\* the oracle returns a handle
InvocationReturns == SanitizedInvocation(TRUE)

\* the oracle raises ValueError, which get_rpm_spec turns into RPMException
InvocationRaises == SanitizedInvocation(FALSE)

(***************************************************************************)
(* The specifications                                                      *)
(***************************************************************************)

\* no call of Tag or of Tags.parse is made
PureIdle ==
    /\ arg = Args("none", "", <<>>, None)
    /\ call = NoCall

Init ==
    /\ InitEdit
    /\ PureIdle
    /\ ParserIdle
    /\ ObjectsIdle
    /\ RaceIdle
    /\ EnvIdle

Next ==
    \/ ParseTags
    \/ ParseSourcelist
    \/ DelItem
    \/ DelAttr
    \/ Insert
    \/ SetAttr
    \/ SlInsert
    \/ SlDelItem

\* the editing of a Tags object and of a Sourcelist object
Spec == Init /\ [][Next]_vars

InitCalls ==
    /\ InitEdit
    /\ InitPure
    /\ ParserIdle
    /\ ObjectsIdle
    /\ RaceIdle
    /\ EnvIdle

NextCalls ==
    \/ NewTag
    \/ ParseSection
    \/ ParseComments

\* the calls of the constructor of Tag and of Tags.parse
SpecCalls == InitCalls /\ [][NextCalls]_vars

InitPipeline ==
    /\ InitEdit
    /\ PureIdle
    /\ InitParser
    /\ ObjectsIdle
    /\ RaceIdle
    /\ EnvIdle

NextPipeline ==
    \/ ParseCall
    \/ FirstSucceeds
    \/ FirstFails
    \/ SecondSucceeds
    \/ SecondFails
    \/ ThirdSucceeds
    \/ ThirdFails
    \/ Continue

\* the calls of SpecParser.parse
SpecPipeline == InitPipeline /\ [][NextPipeline]_vars

InitChanges ==
    /\ InitEdit
    /\ PureIdle
    /\ ParserIdle
    /\ InitObjects
    /\ RaceIdle
    /\ EnvIdle

NextChanges ==
    \E side \in Sides :
        \/ SetItemStr(side)
        \/ SetItemComment(side)
        \/ SetSliceStr(side)
        \/ CommentsAppend(side)
        \/ CommentsInsert(side)
        \/ PrependPrecedingLines(side)

\* the changes of a Comments object and of the comments of the Tag
\* constructed from it
SpecChanges == InitChanges /\ [][NextChanges]_vars

InitOverlap ==
    /\ InitEdit
    /\ PureIdle
    /\ ParserIdle
    /\ ObjectsIdle
    /\ InitRace
    /\ EnvIdle

NextOverlap ==
    \E p \in Procs :
        \/ RaceEnter(p)
        \/ RaceCheck(p)
        \/ RaceWrite(p)
        \/ RaceOracle(p)
        \/ RaceUnlink(p)

\* two calls of parse on one source directory
SpecOverlap == InitOverlap /\ [][NextOverlap]_vars

InitEnvironment ==
    /\ InitEdit
    /\ PureIdle
    /\ ParserIdle
    /\ ObjectsIdle
    /\ RaceIdle
    /\ InitEnv

NextEnvironment ==
    \/ InvocationReturns
    \/ InvocationRaises

\* the oracle invocations and the environment
SpecEnvironment == InitEnvironment /\ [][NextEnvironment]_vars

InitOwners ==
    /\ InitEdit
    /\ PureIdle
    /\ ParserIdle
    /\ InitCopies
    /\ RaceIdle
    /\ EnvIdle

NextOwners ==
    \/ ParseAndCopy
    \/ \E side \in Owners :
           \/ CopyInsert(side)
           \/ CopyDelItem(side)
           \/ CopySetAttr(side)
           \/ CopyDelAttr(side)

\* the operations on a Tags object and on a copy or a slice of it
SpecOwners == InitOwners /\ [][NextOwners]_vars

(***************************************************************************)
(* Properties                                                              *)
(***************************************************************************)

\* the rendered text of the Tags object, and of it before the last operation
Text == TagsGetRawSectionData(tags)

PreText == TagsGetRawSectionData(last.pre)

\* s without the run of empty lines at its end
RECURSIVE TrimEnd(_)
TrimEnd(s) ==
    IF s # <<>> /\ s[Len(s)] = "" THEN TrimEnd(SubSeq(s, 1, Len(s) - 1))
    ELSE s

\* s without the run of empty lines at its start
RECURSIVE TrimStart(_)
TrimStart(s) ==
    IF s # <<>> /\ s[1] = "" THEN TrimStart(SubSeq(s, 2, Len(s))) ELSE s

\* the moved lines in front of the receiving lines, the empty lines at the
\* seam replaced by one empty line if either side had one
Seam(moved, receiving) ==
    TrimEnd(moved)
        \o (IF TrimEnd(moved) # moved \/ TrimStart(receiving) # receiving
            THEN <<"">>
            ELSE <<>>)
        \o TrimStart(receiving)

\* the collection t after the deletion of its tag at position pos (1-based)
\* as the deletion is described: the tag and its comments gone, its
\* preceding lines in front of those of the next tag, or of the remainder
AfterDeletion(t, pos) ==
    LET n == Len(t.data)
        moved == t.data[pos].comments.preceding_lines
    IN  IF pos < n
        THEN Tags([k \in 1..(n - 1) |->
                      IF k < pos THEN t.data[k]
                      ELSE IF k = pos
                      THEN [t.data[k + 1] EXCEPT
                               !.comments.preceding_lines = Seam(moved, @)]
                      ELSE t.data[k + 1]],
                  t.remainder)
        ELSE Tags(SubSeq(t.data, 1, n - 1), Seam(moved, t.remainder))

\* the last operation deleted one tag by an index in range
DeletedByIndex ==
    /\ last.op = "delitem"
    /\ ~last.index.slice
    /\ PyIndex(Len(last.pre.data), last.index.a) # 0

\* C3 as claimed: del tags[i] leaves the collection without the tag, the
\* tag's preceding lines moved in front of the preceding lines of the next
\* tag, or in front of the remainder when the tag was last, the empty lines
\* at the seam collapsed to one, and everything else as it was.
C3_DeleteMovesPrecedingLines ==
    DeletedByIndex =>
        /\ last.err = "none"
        /\ tags = AfterDeletion(last.pre,
                                PyIndex(Len(last.pre.data), last.index.a))

\* del tags[i] with an index i >= 0 leaves the collection without the tag,
\* the tag's preceding lines moved in front of the next tag's, or of the
\* remainder, with the seam collapsed
DeleteMovesPrecedingLinesFromFront ==
    (DeletedByIndex /\ last.index.a >= 0) =>
        /\ last.err = "none"
        /\ tags = AfterDeletion(last.pre, last.index.a + 1)

\* the comment runs of the tags of t, in order
CommentRuns(t) == [k \in 1..Len(t.data) |-> t.data[k].comments.data]

\* the last operation was del tags[0] on the parsed scenario section
DeletedScenarioSource0 ==
    /\ last.op = "delitem"
    /\ last.index = AnIndex(0)
    /\ last.pre = TagsParse(ScenarioSection, None)

\* C4 as claimed: after del tags[0] on the scenario section the text is the
\* two comment lines, one empty line and the Source1 line; and the comment
\* lines of a deleted tag stay in the text.
C4_DeletedTagsCommentsStay ==
    /\ DeletedScenarioSource0 =>
           Text = <<"# c1", "# c2", "", "Source1: bar.tar.gz">>
    /\ (DeletedByIndex /\ last.err = "none") =>
           LET pos == PyIndex(Len(last.pre.data), last.index.a)
               run == last.pre.data[pos].comments.data
           IN  \A k \in 1..Len(run) :
                   \E j \in 1..Len(Text) : Text[j] = CommentStr(run[k])

\* C4 as amended: after del tags[0] on the scenario section the text is one
\* empty line and the Source1 line, the two comment lines having gone with
\* the tag they belonged to; and a deletion removes the comment run of the
\* deleted tag and leaves the comment runs of the other tags as they were.
C4_DeletedTagsCommentsGo ==
    /\ DeletedScenarioSource0 =>
           /\ last.err = "none"
           /\ Text = <<"", "Source1: bar.tar.gz">>
    /\ DeletedByIndex =>
           CommentRuns(tags) =
               RemoveAt(CommentRuns(last.pre),
                        PyIndex(Len(last.pre.data), last.index.a))

C4_Witness == DeletedScenarioSource0 /\ Len(tags.data) = 1

\* C5 as claimed: del tags.<name> leaves the collection, and so the text,
\* that del tags[tags.find(<name>)] leaves.
C5_DelByNameAsByIndex ==
    (last.op = "delattr" /\ TagsContains(last.pre, last.name)) =>
        LET byIndex == TagsDelItem(last.pre,
                                   AnIndex(TagsFind(last.pre, last.name)))
        IN  /\ last.err = byIndex.err
            /\ tags = byIndex.t
            /\ Text = TagsGetRawSectionData(byIndex.t)

\* the text of the first k tags of t
TextOfFirst(t, k) == TagsGetRawSectionData(Tags(SubSeq(t.data, 1, k), <<>>))

\* the number of lines of s up to and including the first one that is an
\* end-of-conditional marker, 0 when s holds no marker
UpToFirstCloser(s) ==
    IF \E k \in 1..Len(s) : StartsWith(s[k], "%endif")
    THEN CHOOSE k \in 1..Len(s) :
             /\ StartsWith(s[k], "%endif")
             /\ \A j \in 1..(k - 1) : ~StartsWith(s[j], "%endif")
    ELSE 0

\* the last operation inserted a tag
Inserted == last.op = "insert" /\ last.err = "none"

\* C6: after tags.insert(i, tag) the lines directly above the insertion
\* point, up to and including their first %endif, are the first preceding
\* lines of the new tag and so stand above it in the text, the rest of
\* them stand below it, and the text without the lines of the new tag is
\* the text before the insertion.
C6_InsertBelowCloser ==
    Inserted =>
        LET t == last.pre
            n == Len(t.data)
            item == last.value.tag
            \* the position (0-based) the new tag takes
            k == IF last.index.a > n THEN n
                 ELSE IF last.index.a < 0 THEN last.index.a + n
                 ELSE last.index.a
            above == IF k < n THEN t.data[k + 1].comments.preceding_lines
                     ELSE t.remainder
            m == UpToFirstCloser(above)
            start == Len(TextOfFirst(t, k))
            own == CommentsGetRawData(item.comments) \o <<TagLine(item)>>
        IN  /\ Len(tags.data) = n + 1
            /\ tags.data[k + 1].name = item.name
            /\ tags.data[k + 1].comments.preceding_lines =
                   SubSeq(above, 1, m) \o item.comments.preceding_lines
            /\ Text = SubSeq(PreText, 1, start + m)
                          \o own
                          \o SubSeq(PreText, start + m + 1, Len(PreText))

C6_Witness ==
    /\ Inserted
    /\ last.index.a < Len(last.pre.data)
    /\ LET k == PyIndex(Len(last.pre.data), last.index.a)
           above == last.pre.data[k].comments.preceding_lines
       IN  /\ UpToFirstCloser(above) >= 1
           /\ UpToFirstCloser(above) < Len(above)

\* the text of the Sourcelist object
SlText == SourcelistGetRawSectionData(sourcelist)

\* C2: in every state parse and the editing operations lead to, parsing
\* the rendered lines and rendering again gives the rendered lines, for the
\* Tags object and for the Sourcelist object.
C2_RoundTrip ==
    /\ TagsGetRawSectionData(TagsParse(Text, None)) = Text
    /\ SourcelistGetRawSectionData(SourcelistParse(SlText)) = SlText

C2_Witness ==
    /\ nops = MaxOps
    /\ last.op = "setattr"
    /\ last.err = "none"
    /\ tags # last.pre
    /\ Len(tags.data) >= 2
    /\ \E k \in 1..Len(tags.data) : tags.data[k].comments.data # <<>>
    /\ tags.remainder # <<>>
    /\ TagsGetRawSectionData(TagsParse(Text, None)) = Text

\* the positions (1-based) of the tags of t that carry the name, compared
\* without regard to case
Carrying(t, name) ==
    {k \in 1..Len(t.data) : Lower(t.data[k].name) = Lower(name)}

\* the first of a non-empty set of positions
First(ks) == CHOOSE k \in ks : \A j \in ks : k <= j

\* C9 as claimed: setting or deleting by name a tag that is not in the
\* collection fails with AttributeError and leaves tags, remainder and text
\* as they were, and getting by name a tag that is not in the collection,
\* after such an operation too, fails with AttributeError.
C9_AbsentNameFails ==
    /\ (last.op \in {"setattr", "delattr"}
            /\ Carrying(last.pre, last.name) = {}) =>
           /\ last.err = "AttributeError"
           /\ tags = last.pre
           /\ Text = PreText
    /\ \A name \in LookupNames :
           Carrying(tags, name) = {} =>
               TagsGetAttr(tags, attrs, name).err = "AttributeError"

\* C10 as claimed: name in tags, tags.find(name), tags.<name> and
\* tags.<name> = value compare names without regard to case and resolve
\* to the first tag carrying the name, and no operation changes the number
\* of tags by more than the tags it inserts or deletes.
C10_FirstMatch ==
    /\ \A name \in LookupNames :
           LET ks == Carrying(tags, name)
           IN  /\ TagsContains(tags, name) <=> ks # {}
               /\ ks # {} =>
                      /\ TagsFind(tags, name) = First(ks) - 1
                      /\ TagsGetAttr(tags, attrs, name) =
                             [err |-> "none",
                              result |-> TagVal(tags.data[First(ks)])]
    /\ (last.op = "setattr" /\ Carrying(last.pre, last.name) # {}) =>
           LET k == First(Carrying(last.pre, last.name))
           IN  /\ last.err = "none"
               /\ Len(tags.data) = Len(last.pre.data)
               /\ \A j \in 1..Len(tags.data) :
                      j # k => tags.data[j] = last.pre.data[j]
               /\ IF last.value.kind = "tag"
                  THEN tags.data[k] = last.value.tag
                  ELSE tags.data[k] =
                           [last.pre.data[k] EXCEPT !.value = last.value.str]
    /\ (last.op = "insert" /\ last.err = "none") =>
           Len(tags.data) = Len(last.pre.data) + 1
    /\ (last.op = "delattr" /\ last.err = "none"
            /\ Carrying(last.pre, last.name) # {}) =>
           tags.data =
               RemoveAt(last.pre.data, First(Carrying(last.pre, last.name)))

\* C1 as claimed: when a call of parse has returned or raised, the files
\* of sourcedir are the files it held when the call began.
C1_PlaceholdersDeleted ==
    pc \in {"done", "raised"} => FilesOf(sourcedir) = FilesOf(atCall)

\* the number of the tags among the first k of a parsed collection that
\* carry the name of the k-th
Occurrence(t, k) ==
    Cardinality({j \in 1..k : t.data[j].name = t.data[k].name})

\* the positions of the lines of a parsed section that are lines of the
\* tag name n
LinesNamed(n, lines) ==
    {k \in 1..Len(lines) : RegexPatternMatch(n, lines[k], FALSE).ok}

\* the N-th of a set of positions
Nth(ks, N) == CHOOSE k \in ks : Cardinality({j \in ks : j <= k}) = N

\* C7 as claimed: the N-th tag of a name that Tags.parse makes of the raw
\* lines has as expanded value the value of the N-th line of that name of
\* the parsed lines, and has none, and is not valid, exactly when the
\* parsed lines hold fewer than N lines of that name.
C7_PairsByOccurrence ==
    call.op = "parse" =>
        \A k \in 1..Len(call.tags.data) :
            LET tag == call.tags.data[k]
                lines == ParsedLines(arg.parsed)
                named == LinesNamed(tag.name, lines)
                N == Occurrence(call.tags, k)
            IN  IF Cardinality(named) < N
                THEN tag.expanded_value = None /\ ~TagValid(tag)
                ELSE /\ tag.expanded_value =
                            Some(RegexPatternMatch(tag.name,
                                                   lines[Nth(named, N)],
                                                   FALSE).v)
                     /\ TagValid(tag)

\* the whole name, compared without regard to case, is a recognized tag
\* name, with a qualifier in parentheses or a number where one is allowed
WholeNameRecognized(name) ==
    /\ name # ""
    /\ \E t \in TAG_NAMES : NameRegexEnd(t, name, TRUE) = Len(name) + 1

\* C8 as claimed: the constructor of Tag returns a Tag exactly when the
\* whole name is recognized, and raises ValueError, making no Tag, for
\* every other name.
C8_WholeNameChecked ==
    call.op = "Tag" =>
        IF WholeNameRecognized(arg.name)
        THEN call.err = "none" /\ call.tag.some
        ELSE call.err = "ValueError" /\ ~call.tag.some

\* the first oracle invocation of the call returned, or raised
FirstReturned == log # <<>> /\ log[1].ok

FirstRaised == log # <<>> /\ ~log[1].ok

\* C11 as claimed: after a parse that returned, tainted is true exactly
\* when the call created a placeholder.
C11_TaintedIffPlaceholder ==
    pc = "done" => (parser.tainted <=> created # {})

\* C11 as amended: after a parse that returned, tainted is true exactly
\* when the first oracle invocation raised, and then the call created a
\* placeholder; it is false when the first invocation returned, also when
\* placeholders of reported sources were created for the full parse, and
\* so it is false whenever the call created no placeholder.
C11_TaintedIffForced ==
    pc = "done" =>
        /\ parser.tainted <=> FirstRaised
        /\ parser.tainted => created # {}
        /\ created = {} => ~parser.tainted

C11_Witness ==
    /\ pc = "done"
    /\ FirstReturned
    /\ created # {}
    /\ ~parser.tainted

\* the filenames of the locations that are not files of the directory
NotIn(dir, locations) ==
    {get_filename_from_location(l) : l \in locations}
        \ ({""} \cup FilesOf(dir))

\* C12 as claimed: when the first oracle invocation returned, the call
\* creates no placeholder, makes no further oracle invocation and returns
\* tainted = false.
C12_ShortCircuit ==
    FirstReturned =>
        /\ created = {}
        /\ Len(log) = 1
        /\ pc = "done" => ~parser.tainted

\* C12 as amended: when the first oracle invocation returned there is no
\* forced attempt: the placeholders of the reported sources that are not
\* in sourcedir are created, exactly one further oracle invocation, the
\* full one, runs with them in place, and the call returns tainted = false
\* when it returns and raises RPMException when it raises.
C12_FullParseFollows ==
    FirstReturned =>
        /\ pc \in {"third", "done", "raised", "idle"}
        /\ created = NotIn(atCall, locals.sources)
        /\ pc = "third" => Len(log) = 1 /\ created \subseteq FilesOf(sourcedir)
        /\ pc # "third" =>
               /\ Len(log) = 2
               /\ log[2].which = "third"
               /\ created \subseteq FilesOf(log[2].dir)
               /\ log[2].ok => ~parser.tainted /\ parser.spec = "handle"
               /\ ~log[2].ok => exc = "RPMException"

C12_Witness ==
    /\ FirstReturned
    /\ pc = "done"
    /\ Len(log) = 2
    /\ created # {}

\* the names the call refers to: those the static scan found and those of
\* the sources the oracle reported
Referenced ==
    scan.included \cup scan.referenced
        \cup ({get_filename_from_location(l) : l \in locals.sources} \ {""})

\* C13: when a parse with force_parse returned although its first oracle
\* invocation raised, tainted is true and every referenced file that was
\* not in sourcedir when the call began is not in it after the call.
C13_ForcedSuccessTainted ==
    (pc = "done" /\ FirstRaised) =>
        /\ force_parse
        /\ parser.tainted
        /\ parser.spec = "handle"
        /\ \A f \in Referenced : ~IsFile(atCall, f) => ~IsFile(sourcedir, f)
        /\ FilesOf(sourcedir) = FilesOf(atCall)

C13_Witness ==
    /\ pc = "done"
    /\ FirstRaised
    /\ "c.sh" \in scan.referenced
    /\ ~IsFile(atCall, "c.sh")
    /\ "c.sh" \in created
    /\ ~IsFile(sourcedir, "c.sh")

\* the static scan of the content finds nothing
ScanEmpty == scan.included = {} /\ scan.referenced = {}

\* C14: when the first oracle invocation raised and force_parse is false
\* or the static scan found nothing, the call raises RPMException, has
\* created no placeholder and left sourcedir as it was, has made no
\* further oracle invocation, and has set no result.
C14_FirstFailureRaised ==
    (FirstRaised /\ (~force_parse \/ ScanEmpty)) =>
        /\ pc \in {"raised", "idle"}
        /\ exc = "RPMException"
        /\ created = {}
        /\ sourcedir = atCall
        /\ Len(log) = 1
        /\ parser.spec # "handle"

C14_Witness ==
    /\ FirstRaised
    /\ force_parse
    /\ ScanEmpty
    /\ pc = "raised"
    /\ FilesOf(atCall) # FileNames

\* C15: in the forced path an oracle invocation after the first that
\* raised is the last of the call, no invocation is made twice, and the
\* call ends by raising RPMException, with no result set.
C15_ForcedFailureFatal ==
    FirstRaised =>
        /\ \A k \in 2..Len(log) :
               ~log[k].ok =>
                   /\ k = Len(log)
                   /\ pc \in {"raised", "idle"}
                   /\ exc = "RPMException"
                   /\ parser.spec # "handle"
        /\ \A j, k \in 1..Len(log) : log[j].which = log[k].which => j = k
        /\ Len(log) <= 3

C15_Witness ==
    /\ FirstRaised
    /\ pc = "raised"
    /\ Len(log) = 3
    /\ log[2].ok
    /\ ~log[3].ok

\* C16: from the start of a parse call on, on every path of the call,
\* each file that was in sourcedir when the call started has the content it
\* had then, no placeholder was created under its name, and every other
\* file of sourcedir is a placeholder the call created.
C16_ExistingFilesUntouched ==
    /\ \A f \in FilesOf(atCall) : sourcedir[f] = atCall[f]
    /\ created \cap FilesOf(atCall) = {}
    /\ FilesOf(sourcedir) \subseteq FilesOf(atCall) \cup created

\* a forced call that returned: c.sh, a file of sourcedir, was referenced
\* by an inclusion directive and by a shell expansion, and placeholders
\* were created for other names
C16_Witness ==
    /\ pc = "done"
    /\ FirstRaised
    /\ "c.sh" \in scan.included \cap scan.referenced
    /\ atCall["c.sh"] = RealFile
    /\ sourcedir["c.sh"] = RealFile
    /\ created # {}

\* C19: no variable holds an rpm.spec instance when an oracle invocation
\* creates one, in any call of a sequence of parse calls, and at most one
\* variable holds an instance at any time.
C19_OneHandleAtATime ==
    /\ \A k \in 1..Len(log) : log[k].held = {}
    /\ Cardinality(Held) <= 1

\* a later call on a parser that held a handle, released by parse, whose
\* forced non-build invocation returned a handle, released before the full
\* invocation that follows
C19_Witness ==
    /\ ncalls = 2
    /\ parser.spec = "deleted"
    /\ pc = "third"
    /\ Len(log) = 2
    /\ log[2].ok
    /\ log[2].held = {}
    /\ Held = {}

\* C20: the macro context of every oracle invocation, of every call, holds
\* exactly the macros of the parser, then the extra macros of the call,
\* then _sourcedir: a macro defined during an earlier invocation is not
\* defined, a macro given to the constructor has its value, and _sourcedir
\* is the sourcedir of the parser whatever the caller supplied.
C20_ContextPrepared ==
    \A k \in 1..Len(log) :
        LET ctx == log[k].context
        IN  /\ ctx = macros \o extra_macros
                         \o <<Macro("_sourcedir", SourcedirPath)>>
            /\ MacroValue(ctx, "during") = None
            /\ MacroValue(ctx, "_sourcedir") = Some(SourcedirPath)
            /\ \A d \in 1..Len(macros) :
                   macros[d].name = "dist" =>
                       MacroValue(ctx, "dist") = Some(macros[d].value)

\* the third invocation of a second call, made with dist given to the
\* constructor and _sourcedir supplied by the caller, after earlier
\* invocations defined a macro
C20_Witness ==
    /\ ncalls = 2
    /\ Len(log) = 3
    /\ macros = <<Macro("dist", ".fc35")>>
    /\ extra_macros = <<Macro("_sourcedir", "/elsewhere")>>
    /\ MacroValue(context, "during") = Some("1")
    /\ MacroValue(log[3].context, "during") = None
    /\ MacroValue(log[3].context, "dist") = Some(".fc35")

\* C17: a change made through the comments of the Tag leaves what the
\* original Comments object renders as it was, and a change made through
\* the original leaves what the comments of the Tag render as they were.
C17_TagCommentsIndependent ==
    /\ change.side = "tag" =>
           Rendered["original"] = change.pre["original"]
    /\ change.side = "original" =>
           Rendered["tag"] = change.pre["tag"]

\* C18: when the two calls on one source directory are serialized, the
\* oracle of neither runs with a referenced file missing and no unlink
\* finds its placeholder gone.
C18_SerializedIsSafe ==
    serialized =>
        \A p \in Procs :
            /\ procs[p].missing = {}
            /\ procs[p].exc # "FileNotFoundError"

\* C18: two calls that overlap: B skipped c.sh because it saw the
\* placeholder A had created, A unlinked it on exit, and the oracle of B
\* ran with c.sh missing.
C18_Witness ==
    /\ ~serialized
    /\ "c.sh" \in procs["A"].dummy_sources
    /\ "c.sh" \in procs["A"].unlinked
    /\ procs["A"].pc = "done"
    /\ "c.sh" \in procs["B"].skipped
    /\ "c.sh" \in procs["B"].missing

\* the lines of a list that the comment pattern does not match
Unmatched(lines) ==
    {k \in 1..Len(lines) : ~CommentRegexMatch(lines[k]).ok}

\* the position of the last line the pattern does not match, 0 if none
LastUnmatched(lines) ==
    IF Unmatched(lines) = {} THEN 0
    ELSE CHOOSE k \in Unmatched(lines) : \A j \in Unmatched(lines) : j <= k

\* C22: Comments.parse(lines) makes the last line the comment pattern does
\* not match and every line before it the preceding lines, makes the lines
\* after it, which all match, the comments, and get_raw_data() of the
\* result is the list of lines.
C22_ParseSplitsAtLastUnmatched ==
    call.op = "comments" =>
        LET lines == arg.raw
            c == call.comments
            k == LastUnmatched(lines)
        IN  /\ c.preceding_lines = SubSeq(lines, 1, k)
            /\ Len(c.data) = Len(lines) - k
            /\ \A j \in 1..Len(c.data) :
                   /\ CommentRegexMatch(lines[k + j]).ok
                   /\ CommentStr(c.data[j]) = lines[k + j]
            /\ CommentsGetRawData(c) = lines

\* a line that looks like a comment, then a line that is none, then a
\* comment: the first is a preceding line
C22_Witness ==
    /\ call.op = "comments"
    /\ arg.raw = <<"# c", "x", " #d">>
    /\ call.comments.preceding_lines = <<"# c", "x">>
    /\ call.comments.data = <<Comment("d", " #")>>

\* C21: while the oracle of an invocation ran, LANG and LC_ALL were
\* C.UTF-8 and every other variable was as before; after the invocation,
\* whether the oracle returned or raised, every variable is set to the
\* value it had before, or unset if it was unset before.
C21_LocaleForcedAndRestored ==
    nenv > 0 =>
        /\ oracleEnv.during["LANG"] = Some("C.UTF-8")
        /\ oracleEnv.during["LC_ALL"] = Some("C.UTF-8")
        /\ \A k \in EnvNames \ {"LANG", "LC_ALL"} :
               oracleEnv.during[k] = oracleEnv.before[k]
        /\ environ = oracleEnv.before

\* an invocation whose oracle raised, begun with LANG unset and LC_ALL
\* set to another locale
C21_Witness ==
    /\ nenv > 0
    /\ ~oracleEnv.ok
    /\ oracleEnv.before["LANG"] = None
    /\ oracleEnv.before["LC_ALL"] = Some("cs_CZ.UTF-8")
    /\ oracleEnv.during["LANG"] = Some("C.UTF-8")
    /\ environ["LANG"] = None
    /\ environ["LC_ALL"] = Some("cs_CZ.UTF-8")

\* the oracle invocations of a forced path made with placeholders in place
ForcedInvocations ==
    {k \in 1..Len(log) : FirstRaised /\ log[k].which \in {"second", "third"}}

\* C23: whenever the oracle is invoked in the forced attempts, every file
\* the scan found referenced by a shell expansion that was missing when
\* the call began holds the placeholder text, and every other placeholder
\* of the call that is in the directory holds the 13 bytes of its
\* extension.
C23_PlaceholdersTyped ==
    \A k \in ForcedInvocations :
        /\ \A f \in scan.referenced \ FilesOf(atCall) :
               log[k].dir[f] = TextFile("DUMMY")
        /\ \A f \in (created \ scan.referenced) \cap FilesOf(log[k].dir) :
               /\ log[k].dir[f] = BytesFile(DummyBytes(f))
               /\ Len(DummyBytes(f)) = MAGIC_LENGTH

\* C24: between the calls of any sequence of parse calls the spec
\* attribute of the parser can be read, and no call ends with
\* AttributeError.
C24_UsableAfterFailure ==
    pc \in {"idle", "done", "raised"} =>
        /\ parser.spec # "deleted"
        /\ exc # "AttributeError"

\* the scan found references and every file it found is in sourcedir
AllReferencedExist ==
    /\ ~ScanEmpty
    /\ Missing(atCall, scan.included \cup scan.referenced) = {}

\* C25: a call whose _do_parse made an oracle invocation and raised, raised
\* RPMException; and a forced call whose first invocation raised while
\* every file the scan found exists went on to the full invocation, and
\* returned untainted or raised RPMException.
C25_FailuresAreRPMException ==
    /\ (pc = "raised" /\ log # <<>>) => exc = "RPMException"
    /\ (pc \in {"done", "raised"} /\ FirstRaised /\ force_parse
            /\ AllReferencedExist) =>
           /\ Len(log) = 2
           /\ log[2].which = "third"
           /\ \/ pc = "done" /\ ~parser.tainted
              \/ pc = "raised" /\ exc = "RPMException"

\* C27: after tags.insert(i, tag) the lines left between the new tag and
\* the entity it was inserted before (or the end of the section when it
\* was appended) hold no end-of-conditional marker.
C27_NoCloserBelowNewTag ==
    Inserted =>
        LET n == Len(last.pre.data)
            k == IF last.index.a > n THEN n
                 ELSE IF last.index.a < 0 THEN last.index.a + n
                 ELSE last.index.a
            below == IF k < n THEN tags.data[k + 2].comments.preceding_lines
                     ELSE tags.remainder
        IN  \A j \in 1..Len(below) : ~StartsWith(below[j], "%endif")

\* C26: an operation on the copy leaves the tags and the remainder of the
\* original, and so its text, as they were, and an operation on the
\* original leaves those of the copy as they were.
C26_CopyIndependent ==
    /\ change.side = "copy" =>
           Collections["original"] = change.pre["original"]
    /\ change.side = "original" =>
           Collections["copy"] = change.pre["copy"]

====
